---- MODULE Spec2Model ----
(***************************************************************************)
(* Model of extract_incidents.py: the incident segmentation algorithm      *)
(* (find_incidents and its helpers) and the title normaliser (clean_title).*)
(*                                                                         *)
(* A text is a sequence of one-character strings.  Offsets are 0-based and *)
(* spans are half-open, as in the Python source: At(t, p) is t[p] and      *)
(* Slice(t, a, b) is t[a:b].  Every regular expression of the source is an *)
(* operator that computes what re.match does at one offset, with the       *)
(* endpos semantics of Pattern.finditer(text, pos, endpos).                *)
(***************************************************************************)
EXTENDS Integers, Sequences, FiniteSets, TLC

\* ------------------------------------------------------------------------
\* Bounds of the explored input space
\* ------------------------------------------------------------------------
MaxTokens == 5
MaxTitleTokens == 4

\* ------------------------------------------------------------------------
\* Characters
\* ------------------------------------------------------------------------
NoMatch == -1

UpperSeq ==
  <<"A","B","C","D","E","F","G","H","I","J","K","L","M",
    "N","O","P","Q","R","S","T","U","V","W","X","Y","Z">>

LowerSeq ==
  <<"a","b","c","d","e","f","g","h","i","j","k","l","m",
    "n","o","p","q","r","s","t","u","v","w","x","y","z">>

UpperSet == {UpperSeq[i] : i \in 1..26}

DigitSet == {"0","1","2","3","4","5","6","7","8","9"}

\* \s of the re module, restricted to the characters a text can hold here
SpaceSet == {" ", "\n", "\t", "\r"}

DashSet == {"-", "ENDASH", "EMDASH"}

\* [A-Z0-9 /\(\)\-&.,'’–—]
HeaderClass ==
  UpperSet \cup DigitSet \cup
  {" ", "/", "(", ")", "-", "&", ".", ",", "'", "RSQUO", "ENDASH", "EMDASH"}

\* re.IGNORECASE folding of one character
Fold(c) ==
  IF c \in UpperSet
    THEN LowerSeq[CHOOSE i \in 1..26 : UpperSeq[i] = c]
    ELSE c

At(t, p) == t[p + 1]

\* t[a:b] for 0 <= a and b <= len(t)
Slice(t, a, b) == IF a >= b THEN <<>> ELSE SubSeq(t, a + 1, b)

Min2(a, b) == IF a < b THEN a ELSE b

Max2(a, b) == IF a > b THEN a ELSE b

\* the literal lit occurs in t at offset p and ends by endpos
MatchLit(t, p, endpos, lit) ==
  /\ p + Len(lit) <= endpos
  /\ \A i \in 1..Len(lit) : At(t, p + i - 1) = lit[i]

\* the same, ignoring case
MatchLitCI(t, p, endpos, lit) ==
  /\ p + Len(lit) <= endpos
  /\ \A i \in 1..Len(lit) : Fold(At(t, p + i - 1)) = Fold(lit[i])

\* offset reached by a greedy \s* started at p
RECURSIVE SkipSpace(_, _, _)
SkipSpace(t, p, endpos) ==
  IF p < endpos /\ At(t, p) \in SpaceSet
    THEN SkipSpace(t, p + 1, endpos)
    ELSE p

\* offset reached by a greedy run of header-class characters started at p
RECURSIVE SkipHeaderClass(_, _, _)
SkipHeaderClass(t, p, endpos) ==
  IF p < endpos /\ At(t, p) \in HeaderClass
    THEN SkipHeaderClass(t, p + 1, endpos)
    ELSE p

IsDigitAt(t, p, endpos) == p < endpos /\ At(t, p) \in DigitSet

\* str.find(sub, lo, hi): least offset in lo..hi-len(sub) where sub occurs, or -1
RECURSIVE StrFind(_, _, _, _)
StrFind(t, sub, lo, hi) ==
  IF lo + Len(sub) > hi THEN -1
  ELSE IF MatchLit(t, lo, hi, sub) THEN lo
  ELSE StrFind(t, sub, lo + 1, hi)

\* str.rfind(sub, lo, hi): greatest such offset, or -1
RECURSIVE StrRFindFrom(_, _, _, _, _)
StrRFindFrom(t, sub, lo, hi, p) ==
  IF p < lo THEN -1
  ELSE IF MatchLit(t, p, hi, sub) THEN p
  ELSE StrRFindFrom(t, sub, lo, hi, p - 1)

StrRFind(t, sub, lo, hi) == StrRFindFrom(t, sub, lo, hi, hi - Len(sub))

\* ------------------------------------------------------------------------
\* The patterns
\* ------------------------------------------------------------------------
MonthNames ==
  { <<"J","a","n","u","a","r","y">>, <<"F","e","b","r","u","a","r","y">>,
    <<"M","a","r","c","h">>, <<"A","p","r","i","l">>, <<"M","a","y">>,
    <<"J","u","n","e">>, <<"J","u","l","y">>, <<"A","u","g","u","s","t">>,
    <<"S","e","p","t","e","m","b","e","r">>, <<"O","c","t","o","b","e","r">>,
    <<"N","o","v","e","m","b","e","r">>, <<"D","e","c","e","m","b","e","r">> }

\* \d{k}[,.]?\s*\d{4} at p: the end offset, or NoMatch
DayYearEnd(t, p, endpos, k) ==
  IF \A i \in 0..(k - 1) : IsDigitAt(t, p + i, endpos)
    THEN LET a == p + k
             b == IF a < endpos /\ At(t, a) \in {",", "."} THEN a + 1 ELSE a
             c == SkipSpace(t, b, endpos)
         IN  IF \A i \in 0..3 : IsDigitAt(t, c + i, endpos)
               THEN c + 4
               ELSE NoMatch
    ELSE NoMatch

\* DATE_SUFFIX.match at p: the end offset, or NoMatch
MatchDateSuffix(t, p, endpos) ==
  IF p < endpos /\ At(t, p) \in DashSet
    THEN LET q == SkipSpace(t, p + 1, endpos)
             months == {m \in MonthNames : MatchLit(t, q, endpos, m)}
         IN  IF q > p + 1 /\ months # {}
               THEN LET m  == CHOOSE x \in months : TRUE
                        a  == q + Len(m)
                        b  == IF a < endpos /\ At(t, a) = "," THEN a + 1 ELSE a
                        c  == SkipSpace(t, b, endpos)
                        e2 == DayYearEnd(t, c, endpos, 2)
                    IN  IF c > b
                          THEN IF e2 # NoMatch THEN e2
                               ELSE DayYearEnd(t, c, endpos, 1)
                          ELSE NoMatch
               ELSE NoMatch
    ELSE NoMatch

\* offset of the last "\n" in lo..hi-1, or -1
RECURSIVE LastNewline(_, _, _)
LastNewline(t, lo, hi) ==
  IF hi <= lo THEN -1
  ELSE IF At(t, hi - 1) = "\n" THEN hi - 1
  ELSE LastNewline(t, lo, hi - 1)

\* (?:19|20)\d{2} at p
IsYearAt(t, p, endpos) ==
  /\ p + 4 <= endpos
  /\ \/ At(t, p) = "1" /\ At(t, p + 1) = "9"
     \/ At(t, p) = "2" /\ At(t, p + 1) = "0"
  /\ At(t, p + 2) \in DigitSet
  /\ At(t, p + 3) \in DigitSet

\* DATE_SUFFIX_YEAR_ONLY.match at p (re.MULTILINE): the end offset, or NoMatch
MatchYearOnly(t, p, endpos) ==
  IF p < endpos /\ At(t, p) \in DashSet
    THEN LET q == SkipSpace(t, p + 1, endpos)
         IN  IF q > p + 1 /\ IsYearAt(t, q, endpos)
               THEN LET w == SkipSpace(t, q + 4, endpos)
                        n == LastNewline(t, q + 4, w)
                    IN  IF w = endpos THEN w
                        ELSE IF n # -1 THEN n
                        ELSE NoMatch
               ELSE NoMatch
  ELSE IF /\ p < endpos /\ At(t, p) = "("
          /\ IsYearAt(t, p + 1, endpos)
          /\ p + 5 < endpos /\ At(t, p + 5) = ")"
    THEN p + 6
  ELSE NoMatch

SourceWord == <<"s","o","u","r","c","e">>

\* SOURCE_MARKER_RE.match at p (re.IGNORECASE): the end offset, or NoMatch
MatchSourceMarker(t, p, endpos) ==
  IF p < endpos /\ At(t, p) = "("
    THEN LET q == SkipSpace(t, p + 1, endpos)
         IN  IF MatchLitCI(t, q, endpos, SourceWord)
               THEN LET r == SkipSpace(t, q + Len(SourceWord), endpos)
                    IN  IF r < endpos /\ At(t, r) = ")" THEN r + 1 ELSE NoMatch
               ELSE NoMatch
    ELSE NoMatch

\* SECTION_HEADER_RE.match at p (re.MULTILINE): the end offset, or NoMatch
MatchSectionHeader(t, p, endpos) ==
  IF /\ p < endpos
     /\ (p = 0 \/ At(t, p - 1) = "\n")
     /\ At(t, p) \in UpperSet
    THEN LET e == SkipHeaderClass(t, p + 1, endpos)
         IN  IF e > p + 1 /\ (e = endpos \/ At(t, e) = "\n")
               THEN e
               ELSE NoMatch
    ELSE NoMatch

MatchAt(pattern, t, p, endpos) ==
  CASE pattern = "DATE_SUFFIX"           -> MatchDateSuffix(t, p, endpos)
    [] pattern = "DATE_SUFFIX_YEAR_ONLY" -> MatchYearOnly(t, p, endpos)
    [] pattern = "SOURCE_MARKER_RE"      -> MatchSourceMarker(t, p, endpos)
    [] pattern = "SECTION_HEADER_RE"     -> MatchSectionHeader(t, p, endpos)

\* pattern.finditer(t, pos, endpos): the spans <<start, end>> of the
\* leftmost non-overlapping matches, in order
RECURSIVE FindIter(_, _, _, _)
FindIter(pattern, t, pos, endpos) ==
  IF pos >= endpos THEN <<>>
  ELSE LET e == MatchAt(pattern, t, pos, endpos)
       IN  IF e = NoMatch
             THEN FindIter(pattern, t, pos + 1, endpos)
             ELSE <<(<<pos, e>>)>> \o FindIter(pattern, t, e, endpos)

\* TITLE_KEYWORDS: the alternatives as literals.  "pleads?" and "admits?" are
\* found exactly where "plead" and "admit" are, and "wire\s+fraud",
\* "bank\s+fraud", "mail\s+fraud" only where "fraud" is.
TitleKeywords ==
  { <<"e","m","b","e","z","z","l">>, <<"f","r","a","u","d">>,
    <<"s","t","o","l">>, <<"s","t","e","a","l">>,
    <<"s","e","n","t","e","n","c","e","d">>, <<"g","u","i","l","t","y">>,
    <<"c","h","a","r","g","e","d">>, <<"t","h","e","f","t">>,
    <<"k","i","c","k","b","a","c","k">>, <<"s","c","h","e","m","e">>,
    <<"c","o","n","s","p","i","r">>,
    <<"m","i","s","a","p","p","r","o","p","r","i","a","t">>,
    <<"i","n","d","i","c","t","e","d">>, <<"a","r","r","e","s","t","e","d">>,
    <<"p","l","e","a","d">>, <<"c","o","n","v","i","c","t","e","d">>,
    <<"s","t","e","a","l","i","n","g">>, <<"p","o","c","k","e","t","i","n","g">>,
    <<"a","c","c","u","s","e","d">>, <<"a","d","m","i","t">>,
    <<"f","i","r","e","d">>, <<"s","p","e","n","t">>,
    <<"m","u","r","d","e","r">>, <<"r","o","b","b","e","r","y">>,
    <<"n","e","g","l","i","g","e","n","t">>, <<"a","w","a","r","d","e","d">>,
    <<"b","r","i","b">>, <<"e","x","t","o","r","t">>,
    <<"l","a","u","n","d","e","r">>, <<"d","e","f","r","a","u","d">>,
    <<"m","i","s","u","s">>, <<"d","i","v","e","r","t">>,
    <<"c","o","r","r","u","p">>, <<"h","a","c","k">>, <<"l","e","a","k">>,
    <<"e","s","p","i","o","n","a","g","e">>, <<"s","a","b","o","t","a","g","e">>,
    <<"t","h","r","e","a","t","e","n">>, <<"h","a","r","a","s","s">>,
    <<"a","s","s","a","u","l","t">>,
    <<"m","a","n","s","l","a","u","g","h","t","e","r">> }

KeywordInitials == {k[1] : k \in TitleKeywords}

\* TITLE_KEYWORDS.search(t) is not None
HasTitleKeyword(t) ==
  \E p \in 0..(Len(t) - 1) :
    /\ Fold(At(t, p)) \in KeywordInitials
    /\ \E k \in TitleKeywords : MatchLitCI(t, p, Len(t), k)

\* str.strip()
RECURSIVE RStripEnd(_, _)
RStripEnd(t, e) ==
  IF e > 0 /\ At(t, e - 1) \in SpaceSet THEN RStripEnd(t, e - 1) ELSE e

Strip(t) ==
  LET a == SkipSpace(t, 0, Len(t))
      e == RStripEnd(t, Len(t))
  IN  Slice(t, a, e)

\* the (position, header_text) pairs of a list of SECTION_HEADER_RE matches
RECURSIVE HeadersOf(_, _)
HeadersOf(t, ms) ==
  IF ms = <<>> THEN <<>>
  ELSE LET m      == Head(ms)
           header == Strip(Slice(t, m[1], m[2]))
       IN  IF Len(header) >= 5
             THEN <<[pos |-> m[1], text |-> header]>> \o HeadersOf(t, Tail(ms))
             ELSE HeadersOf(t, Tail(ms))

find_section_headers(t) ==
  HeadersOf(t, FindIter("SECTION_HEADER_RE", t, 0, Len(t)))

EMagazineMarker ==
  <<"W","O","R","K","P","L","A","C","E"," ","V","I","O","L","E","N","C","E",
    " ","(","W","P","V",")"," ","I","N","S","I","D","E","R"," ","T","H","R",
    "E","A","T"," ","I","N","C","I","D","E","N","T","S"," ","E","-","M","A",
    "G","A","Z","I","N","E">>

SourcesMarker ==
  <<"S","O","U","R","C","E","S"," ","F","O","R"," ","I","N","S","I","D","E",
    "R"," ","T","H","R","E","A","T"," ","I","N","C","I","D","E","N","T"," ",
    "P","O","S","T","I","N","G","S">>

TrailerMarkers == <<EMagazineMarker, SourcesMarker>>

RECURSIVE EndBoundaryFrom(_, _, _)
EndBoundaryFrom(t, markers, end_boundary) ==
  IF markers = <<>> THEN end_boundary
  ELSE LET pos == StrFind(t, Head(markers), 0, Len(t))
       IN  EndBoundaryFrom(t, Tail(markers),
                           IF pos # -1 THEN Min2(end_boundary, pos)
                                       ELSE end_boundary)

\* find_end_boundary that never finds a trailer marker
find_end_boundary_NoTrailer(t) == Len(t)

find_end_boundary(t) == EndBoundaryFrom(t, TrailerMarkers, Len(t))

\* ------------------------------------------------------------------------
\* clean_title
\* ------------------------------------------------------------------------
RECURSIVE SkipDigits(_, _, _)
SkipDigits(t, p, endpos) ==
  IF p < endpos /\ At(t, p) \in DigitSet
    THEN SkipDigits(t, p + 1, endpos)
    ELSE p

\* re.sub(r"^\d{1,3}\s*\n", "", t)
StripLeadingPageNumber(t) ==
  LET d == SkipDigits(t, 0, Len(t))
      w == SkipSpace(t, d, Len(t))
      n == LastNewline(t, d, w)
  IN  IF d \in 1..3 /\ n # -1 THEN Slice(t, n + 1, Len(t)) ELSE t

\* \n\d{1,3}\s*$ matches at p
IsTrailingPageNumberAt(t, p) ==
  /\ At(t, p) = "\n"
  /\ LET d == SkipDigits(t, p + 1, Len(t))
     IN  /\ d - (p + 1) \in 1..3
         /\ SkipSpace(t, d, Len(t)) = Len(t)

\* re.sub(r"\n\d{1,3}\s*$", "", t)
StripTrailingPageNumber(t) ==
  LET ps == {p \in 0..(Len(t) - 1) : IsTrailingPageNumberAt(t, p)}
  IN  IF ps = {} THEN t
      ELSE Slice(t, 0, CHOOSE p \in ps : \A q \in ps : p <= q)

\* re.sub(r"\n\d{1,3}\n", "\n", t), scanning from offset p
RECURSIVE CollapseMidPageNumbers(_, _)
CollapseMidPageNumbers(t, p) ==
  IF p >= Len(t) THEN <<>>
  ELSE LET d == SkipDigits(t, p + 1, Len(t))
       IN  IF /\ At(t, p) = "\n"
              /\ d - (p + 1) \in 1..3
              /\ d < Len(t) /\ At(t, d) = "\n"
             THEN <<"\n">> \o CollapseMidPageNumbers(t, d + 1)
             ELSE <<At(t, p)>> \o CollapseMidPageNumbers(t, p + 1)

\* offset of the first line boundary ("\n" or "\r") at or after p, or len(t)
RECURSIVE LineEnd(_, _)
LineEnd(t, p) ==
  IF p < Len(t) /\ At(t, p) \notin {"\n", "\r"} THEN LineEnd(t, p + 1) ELSE p

\* str.splitlines(), from offset p
RECURSIVE SplitLines(_, _)
SplitLines(t, p) ==
  IF p >= Len(t) THEN <<>>
  ELSE LET e    == LineEnd(t, p)
           next == IF e + 1 < Len(t) /\ At(t, e) = "\r" /\ At(t, e + 1) = "\n"
                     THEN e + 2 ELSE e + 1
       IN  <<Slice(t, p, e)>> \o SplitLines(t, next)

\* "\n".join(lines)
RECURSIVE JoinLines(_)
JoinLines(lines) ==
  IF lines = <<>> THEN <<>>
  ELSE IF Len(lines) = 1 THEN lines[1]
  ELSE lines[1] \o <<"\n">> \o JoinLines(Tail(lines))

\* _hdr_line.match(s): ^[A-Z][A-Z0-9 /\(\)\-&.,'’–—]{4,}$
IsHeaderLine(s) ==
  /\ Len(s) >= 5
  /\ s[1] \in UpperSet
  /\ \A i \in 2..Len(s) : s[i] \in HeaderClass

\* while lines and _hdr_line.match(lines[0].strip()): lines.pop(0)
RECURSIVE DropHeaderLines(_)
DropHeaderLines(lines) ==
  IF lines # <<>> /\ IsHeaderLine(Strip(lines[1]))
    THEN DropHeaderLines(Tail(lines))
    ELSE lines

\* re.sub(r"\s*\n\s*", " ", t), scanning from offset p
RECURSIVE CollapseNewlines(_, _)
CollapseNewlines(t, p) ==
  IF p >= Len(t) THEN <<>>
  ELSE LET w == SkipSpace(t, p, Len(t))
       IN  IF w > p /\ LastNewline(t, p, w) # -1
             THEN <<" ">> \o CollapseNewlines(t, w)
             ELSE <<At(t, p)>> \o CollapseNewlines(t, p + 1)

\* ^[A-Z][A-Z0-9 /\(\)\-&.,'’–—]{4,}\s+(?=[A-Z]) with the class run ending at
\* e: the end offset of the match, or NoMatch
InlinePrefixEndAt(t, e) ==
  LET w == SkipSpace(t, e, Len(t))
  IN  IF w > e /\ w < Len(t) /\ At(t, w) \in UpperSet THEN w ELSE NoMatch

\* re.sub(r"^[A-Z][...]{4,}\s+(?=[A-Z])", "", t): the greedy class run gives
\* characters back until the rest of the pattern matches
StripInlineHeaderPrefix(t) ==
  IF Len(t) > 0 /\ t[1] \in UpperSet
    THEN LET c  == SkipHeaderClass(t, 1, Len(t))
             es == {e \in 5..c : InlinePrefixEndAt(t, e) # NoMatch}
         IN  IF es = {} THEN t
             ELSE LET e == CHOOSE x \in es : \A y \in es : y <= x
                  IN  Slice(t, InlinePrefixEndAt(t, e), Len(t))
    ELSE t

RECURSIVE SkipBlanks(_, _)
SkipBlanks(t, p) ==
  IF p < Len(t) /\ At(t, p) = " " THEN SkipBlanks(t, p + 1) ELSE p

\* re.sub(r" {2,}", " ", t), scanning from offset p
RECURSIVE CollapseSpaces(_, _)
CollapseSpaces(t, p) ==
  IF p >= Len(t) THEN <<>>
  ELSE LET w == SkipBlanks(t, p)
       IN  IF w - p >= 2
             THEN <<" ">> \o CollapseSpaces(t, w)
             ELSE <<At(t, p)>> \o CollapseSpaces(t, p + 1)

clean_title(title) ==
  LET t1 == StripLeadingPageNumber(title)
      t2 == StripTrailingPageNumber(t1)
      t3 == CollapseMidPageNumbers(t2, 0)
      t4 == JoinLines(DropHeaderLines(SplitLines(t3, 0)))
      t5 == CollapseNewlines(t4, 0)
      t6 == StripInlineHeaderPrefix(t5)
      t7 == CollapseSpaces(t6, 0)
  IN  Strip(t7)

\* ------------------------------------------------------------------------
\* find_incidents: the pure parts
\* ------------------------------------------------------------------------
MergeGap == 20

MaxTitleLen == 300

Last(s) == s[Len(s)]

\* Coalesce with the gap measured from the start of the last entry
RECURSIVE Coalesce_GapFromStart(_, _)
Coalesce_GapFromStart(raw, acc) ==
  IF raw = <<>> THEN acc
  ELSE LET sp == Head(raw)
       IN  IF acc # <<>> /\ sp[1] - Last(acc)[1] < MergeGap
             THEN Coalesce_GapFromStart(Tail(raw),
                           [acc EXCEPT ![Len(acc)] = <<acc[Len(acc)][1], sp[2]>>])
             ELSE Coalesce_GapFromStart(Tail(raw), Append(acc, sp))

\* Step A, the deduplication loop over raw_source_list
RECURSIVE Coalesce(_, _)
Coalesce(raw, acc) ==
  IF raw = <<>> THEN acc
  ELSE LET sp == Head(raw)
       IN  IF acc # <<>> /\ sp[1] - Last(acc)[2] < MergeGap
             THEN Coalesce(Tail(raw),
                           [acc EXCEPT ![Len(acc)] = <<acc[Len(acc)][1], sp[2]>>])
             ELSE Coalesce(Tail(raw), Append(acc, sp))

SourceStarts(src) == [i \in 1..Len(src) |-> src[i][1]]

\* bisect.bisect_left(a, x) on a sorted list: the number of elements below x
BisectLeft(a, x) == Cardinality({i \in 1..Len(a) : a[i] < x})

BlankLine == <<"\n", "\n">>

\* the while-loop over text.find("\n\n", scan_pos, search_from)
RECURSIVE LastBlankSep(_, _, _, _)
LastBlankSep(t, scan_pos, search_from, last_sep) ==
  LET bp == StrFind(t, BlankLine, scan_pos, search_from)
  IN  IF bp = -1 THEN last_sep
      ELSE LastBlankSep(t, bp + 1, search_from, bp + 2)

\* the for-loop over SECTION_HEADER_RE.finditer(text, title_start, search_from);
\* sep carries last_sep and the start of the header that set it (-1: none)
RECURSIVE HeaderSep(_, _, _, _)
HeaderSep(t, ms, search_from, sep) ==
  IF ms = <<>> THEN sep
  ELSE LET m2        == Head(ms)
           line_end  == StrFind(t, <<"\n">>, m2[2], Len(t))
           candidate == IF 0 <= line_end /\ line_end < search_from
                          THEN line_end + 1 ELSE m2[2]
       IN  HeaderSep(t, Tail(ms), search_from,
                     IF candidate > sep.last_sep
                       THEN [last_sep |-> candidate, header |-> m2[1]]
                       ELSE sep)

\* Step B.  kind, m_start, prev_source and anchor_header are not in the
\* dict the code returns: they record which date match and which anchors
\* built the location.
build_title_location(t, src, m_start, m_end, date_str, kind) ==
  LET search_from == m_start
      idx         == BisectLeft(SourceStarts(src), search_from) - 1
      prev_source     == IF idx >= 0 THEN src[idx + 1][1] ELSE -1
      prev_source_end == IF idx >= 0 THEN src[idx + 1][2] ELSE -1
      prev_blank  == StrRFind(t, BlankLine, 0, search_from)
      start0      == IF Max2(prev_source, prev_blank) = -1 THEN 0
                     ELSE IF prev_source > prev_blank THEN prev_source_end
                     ELSE prev_blank + 2
      start1      == SkipSpace(t, start0, search_from)
      blank_sep   == LastBlankSep(t, start1, search_from, start1)
      sep         == HeaderSep(t, FindIter("SECTION_HEADER_RE", t, start1, search_from),
                               search_from,
                               [last_sep |-> blank_sep, header |-> -1])
      title_start == IF sep.last_sep > start1
                       THEN SkipSpace(t, sep.last_sep, search_from)
                       ELSE start1
  IN  [ title_start |-> title_start,
        title_end   |-> m_end,
        raw_title   |-> Slice(t, title_start, m_end),
        date        |-> date_str,
        kind        |-> kind,
        m_start     |-> m_start,
        prev_source |-> IF Max2(prev_source, prev_blank) # -1 /\ prev_source > prev_blank
                          THEN prev_source ELSE -1,
        anchor_header |-> sep.header ]

\* " ".join(s.split())
RECURSIVE NormalizeSpace(_, _)
NormalizeSpace(t, p) ==
  LET a == SkipSpace(t, p, Len(t))
  IN  IF a >= Len(t) THEN <<>>
      ELSE LET e    == CHOOSE x \in (a + 1)..Len(t) :
                         /\ x = Len(t) \/ At(t, x) \in SpaceSet
                         /\ \A y \in a..(x - 1) : At(t, y) \notin SpaceSet
               rest == NormalizeSpace(t, e)
           IN  IF rest = <<>> THEN Slice(t, a, e)
               ELSE Slice(t, a, e) \o <<" ">> \o rest

\* group(1) of a DATE_SUFFIX match, whitespace-normalised
FullDateStr(t, m) ==
  NormalizeSpace(Slice(t, SkipSpace(t, m[1] + 1, m[2]), m[2]), 0)

\* (group(1) or group(2)).strip() of a DATE_SUFFIX_YEAR_ONLY match
YearDateStr(t, m) ==
  LET a == IF At(t, m[1]) = "(" THEN m[1] + 1 ELSE SkipSpace(t, m[1] + 1, m[2])
  IN  Slice(t, a, a + 4)

\* Step 1a
RECURSIVE FullDateLocations(_, _, _)
FullDateLocations(t, src, ms) ==
  IF ms = <<>> THEN <<>>
  ELSE LET m == Head(ms)
       IN  <<build_title_location(t, src, m[1], m[2], FullDateStr(t, m), "full")>>
           \o FullDateLocations(t, src, Tail(ms))

\* any(fs <= m.start() <= fe for fs, fe in full_date_spans)
OverlapsFullDate(m_start, full_date_spans) ==
  \E i \in 1..Len(full_date_spans) :
    full_date_spans[i][1] <= m_start /\ m_start <= full_date_spans[i][2]

\* Step 1b: the locations appended, and the matches the overlap test skipped
RECURSIVE YearOnlyScan(_, _, _, _)
YearOnlyScan(t, src, full_date_spans, ms) ==
  IF ms = <<>> THEN [locs |-> <<>>, skipped |-> <<>>]
  ELSE LET m    == Head(ms)
           rest == YearOnlyScan(t, src, full_date_spans, Tail(ms))
           loc  == build_title_location(t, src, m[1], m[2], YearDateStr(t, m), "year")
       IN  IF OverlapsFullDate(m[1], full_date_spans)
             THEN [rest EXCEPT !.skipped = <<m>> \o @]
           ELSE IF ~HasTitleKeyword(loc.raw_title)
             THEN rest
           ELSE [rest EXCEPT !.locs = <<loc>> \o @]

\* list.sort(key=title_start): stable
RECURSIVE InsertByStart(_, _)
InsertByStart(sorted, loc) ==
  IF sorted = <<>> THEN <<loc>>
  ELSE IF Last(sorted).title_start <= loc.title_start THEN Append(sorted, loc)
  ELSE Append(InsertByStart(SubSeq(sorted, 1, Len(sorted) - 1), loc), Last(sorted))

RECURSIVE SortByStart(_, _)
SortByStart(locs, acc) ==
  IF locs = <<>> THEN acc
  ELSE SortByStart(Tail(locs), InsertByStart(acc, Head(locs)))

\* FirstUnusedSource without the used_sources test
FirstUnusedSource_IgnoreUsed(src, title_end, used) ==
  LET ok == {i \in 1..Len(src) : src[i][1] > title_end}
  IN  IF ok = {} THEN 0 ELSE CHOOSE i \in ok : \A j \in ok : i <= j

\* FirstUnusedSource without the break: the last candidate wins
FirstUnusedSource_NoBreak(src, title_end, used) ==
  LET ok == {i \in 1..Len(src) : src[i][1] > title_end /\ src[i][1] \notin used}
  IN  IF ok = {} THEN 0 ELSE CHOOSE i \in ok : \A j \in ok : j <= i

\* Step 3, the inner loop: index of the first source after title_end that is
\* not in used_sources, 0 if there is none
FirstUnusedSource(src, title_end, used) ==
  LET ok == {i \in 1..Len(src) : src[i][1] > title_end /\ src[i][1] \notin used}
  IN  IF ok = {} THEN 0 ELSE CHOOSE i \in ok : \A j \in ok : i <= j

\* Step 3, the category loop (with its break)
RECURSIVE CategoryFrom(_, _, _)
CategoryFrom(headers, title_start, category) ==
  IF headers = <<>> THEN category
  ELSE IF Head(headers).pos < title_start
    THEN CategoryFrom(Tail(headers), title_start, Head(headers))
  ELSE category

NoHeader == [pos |-> -1, text |-> <<>>]

\* CategoryFor without the position test: the last header of the text
CategoryFor_LastHeader(headers, title_start) ==
  IF headers = <<>> THEN NoHeader ELSE Last(headers)

CategoryFor(headers, title_start) == CategoryFrom(headers, title_start, NoHeader)

\* Step 3, the record built for a matched title.  title_start, title_end,
\* m_start, matched, category_pos and the anchors are not in the dict the code
\* builds: they record the spans the record was built from.
MakeIncident(t, tl, matched, headers) ==
  LET cat == CategoryFor(headers, tl.title_start)
  IN  [ title     |-> clean_title(tl.raw_title),
        body      |-> Strip(Slice(t, tl.title_end, matched[1])),
        date      |-> tl.date,
        category  |-> cat.text,
        full_text |-> Strip(Slice(t, tl.title_start, matched[2])),
        title_start  |-> tl.title_start,
        title_end    |-> tl.title_end,
        m_start      |-> tl.m_start,
        kind         |-> tl.kind,
        matched      |-> matched,
        category_pos |-> cat.pos,
        prev_source  |-> tl.prev_source,
        anchor_header |-> tl.anchor_header ]

\* Step 4: the test an incident must pass
KeepIncident(inc) ==
  /\ ~(Len(inc.title) > MaxTitleLen)
  /\ HasTitleKeyword(inc.title)

FilterKept(incs) == SelectSeq(incs, KeepIncident)

\* ------------------------------------------------------------------------
\* Inputs
\* ------------------------------------------------------------------------
SourceToken == <<" ","(","S","o","u","r","c","e",")">>

DateToken ==
  <<"h","a","c","k"," ","-"," ","M","a","y"," ","3",","," ","2","0","2","0">>

YearToken == <<"(","2","0","1","0",")">>

YearDashToken == <<"-"," ","2","0","1","1","\n">>

HeadingToken ==
  <<"\n","\n","B","A","N","K","I","N","G"," ","A","N","D"," ","F","I","N",
    "A","N","C","E","\n">>

TextTokens ==
  {SourceToken, DateToken, YearToken, YearDashToken, HeadingToken, SourcesMarker}

RECURSIVE Flatten(_)
Flatten(ss) == IF ss = <<>> THEN <<>> ELSE Head(ss) \o Flatten(Tail(ss))

TokenSeqs(tokens, n) == UNION {[1..k -> tokens] : k \in 0..n}

InputTexts == {Flatten(ts) : ts \in TokenSeqs(TextTokens, MaxTokens)}

TitleTokens ==
  { <<"B","A","N","K","S">>, <<"J","o","h","n">>, <<" ">>, <<"\n">>,
    <<"\t">>, <<"7">> }

InputTitles == {Flatten(ts) : ts \in TokenSeqs(TitleTokens, MaxTitleTokens)}

\* ------------------------------------------------------------------------
\* State
\* ------------------------------------------------------------------------
VARIABLES
  pc,                \* the step find_incidents (or the cleaning run) is at
  text,              \* the argument of find_incidents
  end_boundary,
  raw_source_list,
  source_positions,
  full_date_spans,
  title_locations,
  overlap_skipped,   \* year-only matches dropped by the overlap test (history)
  section_headers,
  next_title,        \* 1-based position of the Step 3 loop in title_locations
  used_sources,
  incidents,
  filtered,          \* the list find_incidents returns
  title,             \* the argument of clean_title
  cleaned_once,      \* clean_title(title)
  cleaned_twice      \* clean_title(clean_title(title))

vars ==
  << pc, text, end_boundary, raw_source_list, source_positions,
     full_date_spans, title_locations, overlap_skipped, section_headers,
     next_title, used_sources, incidents, filtered, title, cleaned_once,
     cleaned_twice >>

scan_vars ==
  << end_boundary, raw_source_list, source_positions, full_date_spans,
     title_locations, overlap_skipped, section_headers >>

pair_vars == << next_title, used_sources, incidents, filtered >>

clean_vars == << title, cleaned_once, cleaned_twice >>

Blank ==
  /\ end_boundary = 0
  /\ raw_source_list = <<>>
  /\ source_positions = <<>>
  /\ full_date_spans = <<>>
  /\ title_locations = <<>>
  /\ overlap_skipped = <<>>
  /\ section_headers = <<>>
  /\ next_title = 1
  /\ used_sources = {}
  /\ incidents = <<>>
  /\ filtered = <<>>
  /\ cleaned_once = <<>>
  /\ cleaned_twice = <<>>

\* find_incidents(text) has just been called
Init ==
  /\ pc = "boundary"
  /\ text \in InputTexts
  /\ title = <<>>
  /\ Blank

\* -- Preprocessing
FindEndBoundary ==
  /\ pc = "boundary"
  /\ end_boundary' = find_end_boundary(text)
  /\ pc' = "sources"
  /\ UNCHANGED << text, raw_source_list, source_positions, full_date_spans,
                  title_locations, overlap_skipped, section_headers,
                  pair_vars, clean_vars >>

\* -- Step A
FindSources ==
  /\ pc = "sources"
  /\ LET raw == FindIter("SOURCE_MARKER_RE", text, 0, end_boundary)
     IN  /\ raw_source_list' = raw
         /\ source_positions' = Coalesce(raw, <<>>)
  /\ pc' = "full_dates"
  /\ UNCHANGED << text, end_boundary, full_date_spans, title_locations,
                  overlap_skipped, section_headers, pair_vars, clean_vars >>

\* -- Step 1a
FindFullDates ==
  /\ pc = "full_dates"
  /\ LET ms == FindIter("DATE_SUFFIX", text, 0, end_boundary)
     IN  /\ full_date_spans' = ms
         /\ title_locations' = FullDateLocations(text, source_positions, ms)
  /\ pc' = "year_dates"
  /\ UNCHANGED << text, end_boundary, raw_source_list, source_positions,
                  overlap_skipped, section_headers, pair_vars, clean_vars >>

\* -- Step 1b and the sort that ends Step 1
FindYearOnlyDates ==
  /\ pc = "year_dates"
  /\ LET scan == YearOnlyScan(text, source_positions, full_date_spans,
                   FindIter("DATE_SUFFIX_YEAR_ONLY", text, 0, end_boundary))
     IN  /\ title_locations' = SortByStart(title_locations \o scan.locs, <<>>)
         /\ overlap_skipped' = scan.skipped
  /\ pc' = "headers"
  /\ UNCHANGED << text, end_boundary, raw_source_list, source_positions,
                  full_date_spans, section_headers, pair_vars, clean_vars >>

\* -- Step 2
FindSectionHeaders ==
  /\ pc = "headers"
  /\ section_headers' = find_section_headers(text)
  /\ pc' = IF title_locations = <<>> THEN "filter" ELSE "pair"
  /\ UNCHANGED << text, end_boundary, raw_source_list, source_positions,
                  full_date_spans, title_locations, overlap_skipped,
                  pair_vars, clean_vars >>

\* -- Step 3, one iteration of the loop over title_locations
PairTitle ==
  /\ pc = "pair"
  /\ LET tl == title_locations[next_title]
         i  == FirstUnusedSource(source_positions, tl.title_end, used_sources)
     IN  IF i = 0
           THEN UNCHANGED << used_sources, incidents >>
           ELSE /\ used_sources' = used_sources \cup {source_positions[i][1]}
                /\ incidents' = Append(incidents,
                     MakeIncident(text, tl, source_positions[i], section_headers))
  /\ next_title' = next_title + 1
  /\ pc' = IF next_title = Len(title_locations) THEN "filter" ELSE "pair"
  /\ UNCHANGED << text, scan_vars, filtered, clean_vars >>

\* -- Step 4 and the return
FilterIncidents ==
  /\ pc = "filter"
  /\ filtered' = FilterKept(incidents)
  /\ pc' = "done"
  /\ UNCHANGED << text, scan_vars, next_title, used_sources, incidents,
                  clean_vars >>

Next ==
  \/ FindEndBoundary
  \/ FindSources
  \/ FindFullDates
  \/ FindYearOnlyDates
  \/ FindSectionHeaders
  \/ PairTitle
  \/ FilterIncidents

Spec == Init /\ [][Next]_vars

\* ------------------------------------------------------------------------
\* clean_title on its own: called on a title, then on its own result
\* ------------------------------------------------------------------------
InitClean ==
  /\ pc = "clean"
  /\ title \in InputTitles
  /\ text = <<>>
  /\ Blank

CleanOnce ==
  /\ pc = "clean"
  /\ cleaned_once' = clean_title(title)
  /\ pc' = "clean_again"
  /\ UNCHANGED << text, scan_vars, pair_vars, title, cleaned_twice >>

CleanTwice ==
  /\ pc = "clean_again"
  /\ cleaned_twice' = clean_title(cleaned_once)
  /\ pc' = "cleaned"
  /\ UNCHANGED << text, scan_vars, pair_vars, title, cleaned_once >>

NextClean == CleanOnce \/ CleanTwice

SpecClean == InitClean /\ [][NextClean]_vars

\* ------------------------------------------------------------------------
\* Properties
\* ------------------------------------------------------------------------
Range(s) == {s[i] : i \in 1..Len(s)}

\* offsets at which a trailer marker occurs in t
TrailerOffsets(t) ==
  {p \in 0..Len(t) :
     \E i \in 1..Len(TrailerMarkers) : MatchLit(t, p, Len(t), TrailerMarkers[i])}

\* the earliest trailer marker, or the end of the stream
ContentBoundary(t) ==
  IF TrailerOffsets(t) = {} THEN Len(t)
  ELSE CHOOSE p \in TrailerOffsets(t) : \A q \in TrailerOffsets(t) : p <= q

\* half-open spans a and b share a character
SpansOverlap(a, b) == a[1] < b[2] /\ b[1] < a[2]

\* C1 (terminator exclusivity): no two records, returned or merely assembled,
\* were closed by the same coalesced terminator span, and every claim made
\* during assembly took a terminator nobody had claimed before.
TerminatorExclusivity ==
  /\ \A i, j \in 1..Len(incidents) :
       i # j => incidents[i].matched # incidents[j].matched
  /\ \A i, j \in 1..Len(filtered) :
       i # j => filtered[i].matched # filtered[j].matched
  /\ Cardinality(used_sources) = Len(incidents)
  /\ used_sources = {incidents[i].matched[1] : i \in 1..Len(incidents)}

\* two returned records whose titles both ended before the first one's
\* terminator: they competed for it
TwoRecordsCompeted ==
  /\ pc = "done"
  /\ \E i, j \in 1..Len(filtered) :
       /\ i < j
       /\ filtered[j].title_end < filtered[i].matched[1]

\* C2 (order preservation, strict): consecutive returned records have
\* strictly increasing title_start.
StrictTitleOrder ==
  pc = "done" =>
    \A i \in 1..(Len(filtered) - 1) :
      filtered[i].title_start < filtered[i + 1].title_start

\* C3 (boundary respect): every terminator span, date span and section
\* heading that the scan keeps or that a record is built from (closing
\* terminator, title date, lookback anchor, category) starts strictly before
\* the earliest trailer marker.
BoundaryRespect ==
  LET b == ContentBoundary(text)
  IN  /\ \A sp \in Range(raw_source_list) \cup Range(source_positions) : sp[1] < b
      /\ \A fs \in Range(full_date_spans) : fs[1] < b
      /\ \A tl \in Range(title_locations) :
           /\ tl.m_start < b
           /\ tl.prev_source < b
           /\ tl.anchor_header < b
      /\ \A inc \in Range(incidents) \cup Range(filtered) :
           /\ inc.matched[1] < b
           /\ inc.m_start < b
           /\ inc.prev_source < b
           /\ inc.anchor_header < b
           /\ inc.category_pos < b

\* a record is returned from a text whose trailer marker is followed by a
\* well-formed terminator and a well-formed date
RecordBeforeTrailerPatternsAfter ==
  /\ pc = "done"
  /\ filtered # <<>>
  /\ LET b == ContentBoundary(text)
     IN  /\ \E p \in b..Len(text) :
               MatchSourceMarker(text, p, Len(text)) # NoMatch
         /\ \E p \in b..Len(text) :
               MatchDateSuffix(text, p, Len(text)) # NoMatch

\* C4 (full-date precedence): a year-only match yields a TitleLocation only
\* if its span overlaps no full-date span, and the overlap test discards a
\* year-only match only if its span does overlap a full-date span.
FullDatePrecedence ==
  /\ \A tl \in Range(title_locations) :
       tl.kind = "year" =>
         \A fs \in Range(full_date_spans) :
           ~SpansOverlap(<<tl.m_start, tl.title_end>>, fs)
  /\ \A m \in Range(overlap_skipped) :
       \E fs \in Range(full_date_spans) : SpansOverlap(m, fs)

\* C5 (coalescing invariant): the coalesced list is sorted by start, strictly
\* increasing and non-overlapping, every raw match lies inside exactly one
\* coalesced span, and consecutive coalesced spans are at least 20 apart.
CoalescingInvariant ==
  LET c == source_positions
      r == raw_source_list
  IN  /\ \A i \in 1..Len(c) : c[i][1] < c[i][2]
      /\ \A i \in 1..(Len(c) - 1) :
           /\ c[i][1] < c[i + 1][1]
           /\ c[i][2] <= c[i + 1][1]
           /\ c[i + 1][1] - c[i][2] >= 20
      /\ \A k \in 1..Len(r) :
           Cardinality({i \in 1..Len(c) :
                          c[i][1] <= r[k][1] /\ r[k][2] <= c[i][2]}) = 1

\* some raw markers were merged and two coalesced spans remain
MergedAndSeparateSpans ==
  /\ Len(source_positions) >= 2
  /\ Len(raw_source_list) > Len(source_positions)

\* C6 (idempotence of cleaning): clean_title(clean_title(t)) = clean_title(t).
CleanTitleIdempotent ==
  pc = "cleaned" => cleaned_twice = cleaned_once

\* C7 (category assignment): a record's category is the text of the last
\* section heading positioned strictly before its title_start, and is empty
\* exactly when there is no such heading.
CategoryAssignment ==
  \A inc \in Range(incidents) \cup Range(filtered) :
    LET before == {h \in Range(section_headers) : h.pos < inc.title_start}
    IN  /\ before # {} =>
             inc.category =
               (CHOOSE h \in before : \A g \in before : g.pos <= h.pos).text
        /\ inc.category = <<>> <=> before = {}

\* one returned record has a category, another has none although the text
\* has a heading (after it)
CategorisedAndUncategorised ==
  /\ pc = "done"
  /\ \E inc \in Range(filtered) : inc.category # <<>>
  /\ \E inc \in Range(filtered) :
       /\ inc.category = <<>>
       /\ \E h \in Range(section_headers) : h.pos >= inc.title_start

\* the unclaimed terminators that start after title_end
OpenTerminators(title_end) ==
  {sp \in Range(source_positions) :
     sp[1] > title_end /\ sp[1] \notin used_sources}

\* C8 (greedy pairing): titles are processed in ascending title_start order;
\* each is paired with the unclaimed terminator of smallest start among those
\* starting strictly after its title_end, and is dropped silently if there is
\* none; a text whose titles have no following terminator yields no record.
GreedyPairing ==
  /\ [][pc = "pair" =>
          LET tl   == title_locations[next_title]
              open == OpenTerminators(tl.title_end)
          IN  /\ next_title > 1 =>
                   title_locations[next_title - 1].title_start <= tl.title_start
              /\ IF open = {}
                   THEN incidents' = incidents /\ used_sources' = used_sources
                   ELSE LET sp == CHOOSE x \in open : \A y \in open : x[1] <= y[1]
                        IN  /\ Len(incidents') = Len(incidents) + 1
                            /\ incidents'[Len(incidents')].matched = sp
                            /\ incidents'[Len(incidents')].title_start = tl.title_start
                            /\ incidents'[Len(incidents')].title_end = tl.title_end
                            /\ used_sources' = used_sources \cup {sp[1]}]_vars
  /\ [](pc = "done" /\ (\A tl \in Range(title_locations) :
                           \A sp \in Range(source_positions) : sp[1] <= tl.title_end)
          => filtered = <<>>)

\* one title was paired, and a later one found terminators in the text but
\* none left for it
PairedAndDropped ==
  /\ pc = "done"
  /\ incidents # <<>>
  /\ Len(incidents) < Len(title_locations)
  /\ Len(source_positions) >= 2

\* C9 (title span well-formedness): every TitleLocation has
\* title_start <= title_end and title_start <= the start of its date match.
TitleSpanWellFormed ==
  \A tl \in Range(title_locations) :
    /\ tl.title_start <= tl.title_end
    /\ tl.title_start <= tl.m_start

\* C10 (nearest-terminator closure): no coalesced terminator starts strictly
\* between a returned record's title_end and the terminator that closes it.
NearestTerminatorClosure ==
  pc = "done" =>
    \A inc \in Range(filtered) :
      ~\E sp \in Range(source_positions) :
          inc.title_end < sp[1] /\ sp[1] < inc.matched[1]

====
